---- MODULE Spec2Model ----
(***************************************************************************)
(* Model of the streaming VBA decompressor of phaag/go-vba (vba.go):       *)
(* the signature carver (carvVBA), the chunk decoder (uncompressChunk),    *)
(* the assembler loop (uncompress) and the io.Writer entry point (Write).  *)
(* Bytes are the integers 0..255; Go slices are 0-based, TLA+ sequences    *)
(* 1-based, so Go's buf[i] is At(buf, i).                                  *)
(***************************************************************************)
EXTENDS Integers, Sequences, FiniteSets, TLC

\* max 4096 data + 2 header
VBABuffSize == 4098

\* []byte("\x01..\x00Attribut")
MarkerBytes == <<1, 46, 46, 0, 65, 116, 116, 114, 105, 98, 117, 116>>
mlen == Len(MarkerBytes)

\* error values returned by Write ("Panic" is a Go run-time panic: index or
\* slice bounds out of range)
Nil == "nil"
ErrSignature == "Chunk signature missmatch"
ErrRawSize == "Uncompressed chunk size error"
ErrShortWrite == "Short write to output stream"
ErrNegativeCopy == "Negativ copy size"
ErrSink == "sink error"
Panic == "panic"

\* A buffer made by make([]byte, VBABuffSize) is held as the sequence of its
\* bytes up to the last non-zero one; the bytes from there up to index
\* VBABuffSize - 1 are zero.  Indexing at or beyond VBABuffSize is checked
\* (as a panic) where the code indexes.
At(buf, i) == IF i < Len(buf) THEN buf[i + 1] ELSE 0

\* drop the trailing zero bytes of the representation
Trim(buf) ==
  IF buf = <<>> \/ buf[Len(buf)] # 0 THEN buf
  ELSE LET nz == {i \in 1..Len(buf) : buf[i] # 0}
       IN IF nz = {} THEN <<>>
          ELSE SubSeq(buf, 1, CHOOSE i \in nz : \A j \in nz : j <= i)

\* Go's buf[from:to] as a sequence of to - from bytes
Slice(buf, from, to) ==
  IF to <= Len(buf) THEN SubSeq(buf, from + 1, to)
  ELSE [k \in 1..(to - from) |-> At(buf, from + k - 1)]

\* Go's copy(dst[at:at+Len(src)], src): overwrite dst from index at
CopyInto(dst, at, src) ==
  Trim(Slice(dst, 0, at) \o src \o SubSeq(dst, at + Len(src) + 1, Len(dst)))

\* buf with buf[i] = b (Go index i)
Store(buf, i, b) == CopyInto(buf, i, <<b>>)

Pow2(k) == 2 ^ k

\* bitwise AND of two 16-bit values
RECURSIVE BitAnd(_, _, _)
BitAnd(a, b, bits) ==
  IF bits = 0 THEN 0
  ELSE (IF a % 2 = 1 /\ b % 2 = 1 THEN 1 ELSE 0)
       + 2 * BitAnd(a \div 2, b \div 2, bits - 1)

And16(a, b) == BitAnd(a, b, 16)

\* binary.LittleEndian.Uint16(buf[i:i+2])
Uint16LE(buf, i) == At(buf, i) + 256 * At(buf, i + 1)

----------------------------------------------------------------------------
(* carvVBA *)

\* Each loop of the code is a recursive operator; the steps of a loop body
\* are operators of their own that take the values computed so far as
\* parameters, in the order in which the code computes them.

\* History only: v.stored is the end (highest index + 1) of the stores
\* that the input path of the last Write made into compressedBuffer.
storedUpTo(stored, end) == IF end > stored THEN end ELSE stored

\* variant: the sentinel byte is counted in cSize like every matched byte
carvStep_CountSentinel(v, b) ==
  IF v.cur = 1 \/ v.cur = 2 \/ b = At(MarkerBytes, v.cur)
  THEN [v EXCEPT !.cb = Store(v.cb, v.cSize, b),
                 !.stored = storedUpTo(@, v.cSize + 1),
                 !.cur = v.cur + 1,
                 !.cSize = v.cSize + 1]
  ELSE [v EXCEPT !.cur = 0, !.cSize = 0]

\* one iteration of the range loop of carvVBA on byte b
carvStep(v, b) ==
  IF v.cur = 1 \/ v.cur = 2
  THEN [v EXCEPT !.cb = Store(v.cb, v.cSize, b),
                 !.stored = storedUpTo(@, v.cSize + 1),
                 !.cur = v.cur + 1,
                 !.cSize = v.cSize + 1]
  ELSE IF b = At(MarkerBytes, v.cur)
       THEN [v EXCEPT !.cb = Store(v.cb, v.cSize, b),
                      !.stored = storedUpTo(@, v.cSize + 1),
                      !.cur = v.cur + 1,
                      !.cSize = IF v.cur + 1 # 1 THEN v.cSize + 1 ELSE v.cSize]
       ELSE [v EXCEPT !.cur = 0, !.cSize = 0]

RECURSIVE carvLoop(_, _, _)
RECURSIVE carvCheck(_, _, _)

\* for i, b := range buff { ...; if vba.marker.cur == mlen {...} }; return 0, false
carvLoop(v, buff, i) ==
  IF i >= Len(buff)
  THEN [vba |-> v, offset |-> 0, hasVBA |-> FALSE]
  ELSE carvCheck(carvStep(v, At(buff, i)), buff, i)

\* if vba.marker.cur == mlen { vba.marker.found = true; return i+1, true }
carvCheck(w, buff, i) ==
  IF w.cur = mlen
  THEN [vba |-> [w EXCEPT !.found = TRUE], offset |-> i + 1, hasVBA |-> TRUE]
  ELSE carvLoop(w, buff, i + 1)

\* variant: the match cursor is a local of carvVBA, restarted on every call
carvVBA_LocalCursor(v, buff) == carvLoop([v EXCEPT !.cur = 0, !.cSize = 0], buff, 0)

carvVBA(v, buff) == carvLoop(v, buff, 0)

----------------------------------------------------------------------------
(* copyTokenHelp *)

\* math.Ceil(math.Log2(float64(difference))): -Inf for 0 (any value below 4
\* serves, here -1), else the least k with 2^k >= difference
CeilLog2(difference) ==
  IF difference = 0 THEN -1
  ELSE CHOOSE k \in 0..16 : Pow2(k) >= difference
                            /\ \A j \in 0..(k - 1) : Pow2(j) < difference

\* variant: the bit count has no lower bound
max4_None(b) == b

\* math.Max(b, 4.0)
max4(b) == IF b > 4 THEN b ELSE 4

\* uint16(math.Max(b, 4.0))
bitCountOf(difference) == max4(CeilLog2(difference))

\* uint16(0xFFFF >> bitCount)
lengthMaskOf(bitCount) == 65535 \div Pow2(bitCount)

\* ^lengthMask on 16 bits
offsetMaskOf(bitCount) == 65535 - lengthMaskOf(bitCount)

\* the four results of copyTokenHelp for a bit count
helpOf(bitCount) ==
  [lengthMask |-> lengthMaskOf(bitCount),
   offsetMask |-> offsetMaskOf(bitCount),
   bitCount |-> bitCount,
   maximumLength |-> lengthMaskOf(bitCount) + 3]

copyTokenHelp(current, chunkStart) == helpOf(bitCountOf(current - chunkStart))

\* int((copyToken & lengthMask) + 3)
tokenLength(copyToken, h) == And16(copyToken, h.lengthMask) + 3

\* int(((copyToken & offsetMask) >> (16 - bitCount)) + 1)
tokenOffset(copyToken, h) ==
  (And16(copyToken, h.offsetMask) \div Pow2(16 - h.bitCount)) + 1

----------------------------------------------------------------------------
(* uncompressChunk *)

\* (CompressedHeader >> 15) & 0x1
chunkFlag(header) == (header \div 32768) % 2

\* variant: the signature mask is 0x3
chunkSignature_Mask3(header) == (header \div 4096) % 4

\* (CompressedHeader >> 12) & 0x7
chunkSignature(header) == (header \div 4096) % 8

\* (CompressedHeader & 0x0FFF) + 3
chunkSize(header) == (header % 4096) + 3

\* variant: a block copy that reads the source range as it was before
copyLoop_Block(out, index, last) ==
  IF index < 0 \/ Len(out) + (last - index) > VBABuffSize
  THEN [out |-> out, panic |-> TRUE]
  ELSE [out |-> out \o [k \in 1..(last - index) |-> At(out, index + k - 1)],
        panic |-> FALSE]

RECURSIVE copyLoop(_, _, _)
RECURSIVE copyRest(_, _, _)

\* for index := copySource; index < copySource+length; index++ {
\*     uncompressedBuffer[uSize] = uncompressedBuffer[index]; uSize++ }
\* out is uncompressedBuffer[0:uSize]; an index outside the buffer panics.
\* The iterations index..last-1 are the iterations index..mid-1 followed by
\* the iterations mid..last-1.
copyLoop(out, index, last) ==
  IF index >= last THEN [out |-> out, panic |-> FALSE]
  ELSE IF last - index = 1
  THEN IF index < 0 \/ Len(out) >= VBABuffSize
       THEN [out |-> out, panic |-> TRUE]
       ELSE [out |-> Append(out, At(out, index)), panic |-> FALSE]
  ELSE copyRest(copyLoop(out, index, index + ((last - index) \div 2)),
                index + ((last - index) \div 2), last)

\* the iterations mid..last-1, unless an earlier one panicked
copyRest(first, mid, last) ==
  IF first.panic THEN first ELSE copyLoop(first.out, mid, last)

\* source index of a copy token: vba.uSize - offset
copySourceOf(uSize, offset) == uSize - offset

\* the copy loop of a token with the given source index and length
copySpan(out, copySource, length) == copyLoop(out, copySource, copySource + length)

\* CompressedCurrent after a copy token: CompressedCurrent += 2
afterToken(cur) == cur + 2

\* variant: a flag byte serves 7 items
groupDone_Seven(bitIndex) == ~(bitIndex < 7)

\* the inner loop's exit: !(bitIndex < 8)
groupDone(bitIndex) == ~(bitIndex < 8)

\* History only: log has one entry per copy token read, with the number of
\* bytes produced in the chunk before it (uSize - decompressedChunkStart),
\* its offset and length, its index in the chunk and the chunk's end.
tokenEntry(end, cur, out, copyToken, h) ==
  [produced |-> Len(out),
   offset |-> tokenOffset(copyToken, h),
   length |-> tokenLength(copyToken, h),
   at |-> cur,
   end |-> end]

RECURSIVE tokenGroups(_, _, _, _, _)
RECURSIVE tokenItems(_, _, _, _, _, _, _)
RECURSIVE tokenCopy(_, _, _, _, _, _, _, _, _)
RECURSIVE tokenCopied(_, _, _, _, _, _, _)

\* for CompressedCurrent < CompressedEnd { flagByte := ...; CompressedCurrent++; ...
tokenGroups(cb, end, cur, out, log) ==
  IF cur >= end
  THEN [cur |-> cur, out |-> out, panic |-> FALSE, log |-> log]
  ELSE tokenItems(cb, end, cur + 1, At(cb, cur), 0, out, log)

\* for bitIndex = 0; bitIndex < 8; bitIndex++ { if CompressedCurrent < CompressedEnd {...} }
tokenItems(cb, end, cur, flagByte, bitIndex, out, log) ==
  IF groupDone(bitIndex) THEN tokenGroups(cb, end, cur, out, log)
  ELSE IF cur >= end THEN tokenItems(cb, end, cur, flagByte, bitIndex + 1, out, log)
  ELSE IF (flagByte \div Pow2(bitIndex)) % 2 = 0
  THEN IF Len(out) >= VBABuffSize
       THEN [cur |-> cur, out |-> out, panic |-> TRUE, log |-> log]
       ELSE tokenItems(cb, end, cur + 1, flagByte, bitIndex + 1,
                       Append(out, At(cb, cur)), log)
  ELSE IF cur + 2 > VBABuffSize
       THEN [cur |-> cur, out |-> out, panic |-> TRUE, log |-> log]
       ELSE tokenCopy(cb, end, cur, flagByte, bitIndex, out, log,
                      Uint16LE(cb, cur), copyTokenHelp(Len(out), 0))

\* length, offset, copySource and the copy loop of one copy token
tokenCopy(cb, end, cur, flagByte, bitIndex, out, log, copyToken, h) ==
  tokenCopied(cb, end, cur, flagByte, bitIndex,
              copySpan(out,
                       copySourceOf(Len(out), tokenOffset(copyToken, h)),
                       tokenLength(copyToken, h)),
              Append(log, tokenEntry(end, cur, out, copyToken, h)))

\* CompressedCurrent += 2 and the next item, unless the copy loop panicked
tokenCopied(cb, end, cur, flagByte, bitIndex, c, log) ==
  IF c.panic
  THEN [cur |-> cur, out |-> c.out, panic |-> TRUE, log |-> log]
  ELSE tokenItems(cb, end, afterToken(cur), flagByte, bitIndex + 1, c.out, log)

\* variant: the raw copy does not skip the 2-byte header
rawCopy_FromHeader(ub, cb) == CopyInto(ub, 0, Slice(cb, 0, 4096))

\* the raw branch: copy(uncompressedBuffer[0:4096], compressedBuffer[2:2+4096])
rawCopy(ub, cb) == CopyInto(ub, 0, Slice(cb, 2, 2 + 4096))

\* the result of the token branch: t.out is uncompressedBuffer[0:uSize]
tokenResult(w, t) ==
  [vba |-> [w EXCEPT !.ub = CopyInto(w.ub, 0, t.out), !.uSize = Len(t.out),
                      !.tokens = @ \o t.log],
   processed |-> t.cur,
   err |-> IF t.panic THEN Panic ELSE Nil]

\* uncompressChunk after vba.uSize = 0, for the header read
decodeChunk(w, CompressedHeader) ==
  IF chunkSignature(CompressedHeader) # 3
  THEN [vba |-> w, processed |-> 0, err |-> ErrSignature]
  ELSE IF chunkSize(CompressedHeader) > w.cSize
  THEN [vba |-> w, processed |-> 0, err |-> Nil]
  ELSE IF chunkFlag(CompressedHeader) = 0
  THEN IF chunkSize(CompressedHeader) # 4098
       THEN [vba |-> w, processed |-> 0, err |-> ErrRawSize]
       ELSE [vba |-> [w EXCEPT !.ub = rawCopy(w.ub, w.cb), !.uSize = 4096],
             processed |-> 2 + 4096, err |-> Nil]
  ELSE tokenResult(w, tokenGroups(w.cb, chunkSize(CompressedHeader), 2, <<>>, <<>>))

\* v.decodes counts the calls (history only)
uncompressChunk(v) ==
  decodeChunk([v EXCEPT !.uSize = 0, !.decodes = v.decodes + 1], Uint16LE(v.cb, 0))

----------------------------------------------------------------------------
(* the downstream sink (vba.wr) *)

\* outcome of wr.Write(p): the bytes the sink takes, and the (n, err) it
\* returns; kind is the sink's behaviour on this call
SinkWrite(p, kind) ==
  IF kind = "short"
  THEN [accepted |-> SubSeq(p, 1, Len(p) - 1), n |-> Len(p) - 1, err |-> Nil]
  ELSE IF kind = "error"
  THEN [accepted |-> <<>>, n |-> 0, err |-> ErrSink]
  ELSE [accepted |-> p, n |-> Len(p), err |-> Nil]

----------------------------------------------------------------------------
(* uncompress *)

\* copy(compressedBuffer[0:copySize], compressedBuffer[processed:cSize])
shiftRemaining(cb, processed, cSize) ==
  CopyInto(cb, 0, Slice(cb, processed, cSize))

\* vba.cSize = copySize
cSizeAfter(cSize, processed) == cSize - processed

\* after a full downstream write: vba.uSize = 0
uSizeAfterFlush(uSize) == 0

\* History only: v.base counts the compressed bytes already shifted out of
\* the buffer, v.writes the downstream writes of this Write call, and
\* v.flushLog has one entry per downstream write: base at that moment, the
\* compressed bytes uncompressChunk reported as processed, the sink's length
\* before it, the block's length and the number of bytes the sink took.
logFlush(w, processed, s) ==
  [w EXCEPT !.sink = @ \o s.accepted,
            !.writes = @ + 1,
            !.flushLog = Append(@, [base |-> w.base,
                                    chunk |-> Slice(w.cb, 0, processed),
                                    from |-> Len(w.sink),
                                    len |-> w.uSize,
                                    taken |-> Len(s.accepted)])]

\* The loop body is chunkIter: it yields uncompress's writer, its total and
\* error so far, and whether the loop goes round again (again) or uncompress
\* returns (n, err).

\* copySize := vba.cSize - processed; shift the remaining bytes, next chunk
shiftStep(w, processed, total, env) ==
  IF w.cSize - processed < 0
  THEN [vba |-> w, n |-> total, err |-> ErrNegativeCopy, again |-> FALSE]
  ELSE [vba |-> [w EXCEPT !.cb = IF w.cSize - processed > 0
                                 THEN shiftRemaining(@, processed, w.cSize)
                                 ELSE @,
                          !.cSize = cSizeAfter(@, processed),
                          !.base = @ + processed],
        n |-> total, err |-> Nil, again |-> TRUE]

\* n, err := vba.wr.Write(...) returned s
afterSink(w, processed, total, env, s) ==
  IF s.err # Nil
  THEN [vba |-> logFlush(w, processed, s), n |-> total, err |-> s.err,
        again |-> FALSE]
  ELSE IF s.n # w.uSize
  THEN [vba |-> logFlush(w, processed, s), n |-> total, err |-> ErrShortWrite,
        again |-> FALSE]
  ELSE shiftStep([logFlush(w, processed, s) EXCEPT !.uSize = uSizeAfterFlush(@)],
                 processed, total, env)

\* variant: the loop does not stop when uncompressChunk consumed nothing
needMore_Never(processed) == FALSE

\* if processed == 0 { break }: not enough data in the buffer
needMore(processed) == processed = 0

\* the loop body after uncompressChunk returned r
\* env.at = k makes the k-th downstream write of this Write call behave as
\* env.kind
afterChunk(r, total, env) ==
  IF r.err # Nil
  THEN [vba |-> r.vba, n |-> total + r.processed, err |-> r.err, again |-> FALSE]
  ELSE IF needMore(r.processed)
  THEN [vba |-> r.vba, n |-> total, err |-> Nil, again |-> FALSE]
  ELSE IF r.vba.uSize # 0
  THEN afterSink(r.vba, r.processed, total + r.processed, env,
                 SinkWrite(Slice(r.vba.ub, 0, r.vba.uSize),
                           IF env.at = r.vba.writes + 1 THEN env.kind ELSE "ok"))
  ELSE shiftStep(r.vba, r.processed, total + r.processed, env)

\* one iteration of the loop of uncompress
chunkIter(v, total, env) == afterChunk(uncompressChunk(v), total, env)

RECURSIVE uncompressLoop(_, _, _)
RECURSIVE loopOn(_, _)

\* for vba.cSize > 0 { processed, err := vba.uncompressChunk(); ... }
uncompressLoop(v, total, env) ==
  IF ~(v.cSize > 0) THEN [vba |-> v, n |-> total, err |-> Nil]
  ELSE loopOn(chunkIter(v, total, env), env)

\* the next iteration, or uncompress's return
loopOn(s, env) ==
  IF s.again THEN uncompressLoop(s.vba, s.n, env)
  ELSE [vba |-> s.vba, n |-> s.n, err |-> s.err]

uncompress(v, env) == uncompressLoop(v, 0, env)

----------------------------------------------------------------------------
(* Write *)

\* the count Write returns with an error: total + processed
errorCount(total, processed) == total + processed

\* variant: the early return is taken when the marker has been found
carveOnly_Inverted(found, hasVBA) == ~found /\ hasVBA

\* if offset, hasVBA = vba.carvVBA(b); !hasVBA { return len(b), nil }
carveOnly(found, hasVBA) == ~found /\ ~hasVBA

\* variant: every iteration copies all the bytes left in b
takeOf_All(vbaAvail, buffAvail) == buffAvail

\* the number of bytes one iteration copies into compressedBuffer
takeOf(vbaAvail, buffAvail) == IF vbaAvail < buffAvail THEN vbaAvail ELSE buffAvail

\* copy(vba.compressedBuffer[vba.cSize:], b[offset:offset+take]); cSize += take
appendInput(v, b, offset, take) ==
  [v EXCEPT !.cb = CopyInto(@, v.cSize, SubSeq(b, offset + 1, offset + take)),
            !.stored = IF take > 0 THEN storedUpTo(@, v.cSize + take) ELSE @,
            !.cSize = @ + take]

RECURSIVE WriteLoop(_, _, _, _)
RECURSIVE WriteStep(_, _, _, _, _)
RECURSIVE afterUncompress(_, _, _, _)

\* for buffAvail > 0 { ... }; return len(b), nil
WriteLoop(v, b, offset, env) ==
  IF ~(Len(b) - offset > 0) THEN [vba |-> v, n |-> Len(b), err |-> Nil]
  ELSE WriteStep(v, b, offset, env, takeOf(VBABuffSize - v.cSize, Len(b) - offset))

\* one iteration: copy `take` bytes of b, run uncompress
WriteStep(v, b, offset, env, take) ==
  afterUncompress(uncompress(appendInput(v, b, offset, take), env),
                  b, offset + take, env)

\* if processed, err := vba.uncompress(); err != nil { return total + processed, err }
\* (total is 0 throughout Write)
afterUncompress(u, b, offset, env) ==
  IF u.err # Nil
  THEN [vba |-> u.vba, n |-> errorCount(0, u.n), err |-> u.err]
  ELSE WriteLoop(u.vba, b, offset, env)

\* variant: the loop starts one byte behind the offset carvVBA returned
afterCarve_SkipByte(found, c, b, env) ==
  IF carveOnly(found, c.hasVBA)
  THEN [vba |-> c.vba, n |-> Len(b), err |-> Nil]
  ELSE WriteLoop(c.vba, b, c.offset + 1, env)

\* Write after carvVBA returned c (found is marker.found before the call)
afterCarve(found, c, b, env) ==
  IF carveOnly(found, c.hasVBA)
  THEN [vba |-> c.vba, n |-> Len(b), err |-> Nil]
  ELSE WriteLoop(c.vba, b, c.offset, env)

\* Write on a writer with the per-call history counters reset
WriteFrom(v, b, env) ==
  afterCarve(v.found,
             IF ~v.found THEN carvVBA(v, b)
             ELSE [vba |-> v, offset |-> 0, hasVBA |-> FALSE],
             b, env)

Write(v0, b, env) ==
  WriteFrom([v0 EXCEPT !.decodes = 0, !.writes = 0, !.tokens = <<>>,
                       !.stored = 0], b, env)

\* NewWriter(wr): zeroed fields, two buffers of VBABuffSize zero bytes
NewWriter ==
  [cb |-> <<>>,
   ub |-> <<>>,
   cSize |-> 0, uSize |-> 0, cur |-> 0, found |-> FALSE,
   sink |-> <<>>, decodes |-> 0, writes |-> 0, base |-> 0, flushLog |-> <<>>,
   tokens |-> <<>>, stored |-> 0]

----------------------------------------------------------------------------
(* input streams fed to the writer, built byte by byte in the container    *)
(* format that carvVBA and uncompressChunk parse                           *)

\* A split feed passes slices of 1..MaxWrite grains; a grain is one byte,
\* and CoarseGrain bytes for a stream longer than LongInput bytes.  At most
\* MaxFaults downstream writes are short or fail in one run.
MaxWrite == 3
MaxFaults == 1
LongInput == 64
CoarseGrain == 1366

\* 2-byte little-endian chunk header: flag in bit 15, signature 0b011 in
\* bits 12-14, size - 3 in bits 0-11
Hdr(flag, size) ==
  LET h == flag * 32768 + 3 * 4096 + (size - 3) IN <<h % 256, h \div 256>>

\* 2-byte little-endian copy token with a bits-wide offset field
Tok(bits, length, offset) ==
  LET t == (offset - 1) * Pow2(16 - bits) + (length - 3) IN <<t % 256, t \div 256>>

\* "Attribut"
Attribut == <<65, 116, 116, 114, 105, 98, 117, 116>>

\* token groups holding only literal items: a flag byte 0x00 before every
\* 8 literals
RECURSIVE LitRun(_)
LitRun(lits) ==
  IF lits = <<>> THEN <<>>
  ELSE IF Len(lits) <= 8 THEN <<0>> \o lits
  ELSE <<0>> \o SubSeq(lits, 1, 8) \o LitRun(SubSeq(lits, 9, Len(lits)))

\* token groups holding a literal run and then one copy token
RECURSIVE LitsToken(_, _, _, _)
LitsToken(lits, bits, length, offset) ==
  IF Len(lits) >= 8
  THEN <<0>> \o SubSeq(lits, 1, 8)
         \o LitsToken(SubSeq(lits, 9, Len(lits)), bits, length, offset)
  ELSE <<Pow2(Len(lits))>> \o lits \o Tok(bits, length, offset)

\* a compressed chunk (flag 1) with the given token groups
Chunk(body) == Hdr(1, 2 + Len(body)) \o body

\* "Hello, World!" and "Attribute VB_Name = " (with and without its tail)
HelloLits == <<72, 101, 108, 108, 111, 44, 32, 87, 111, 114, 108, 100, 33>>
AttrVB == Attribut \o <<101, 32, 86, 66>>
AttrName == AttrVB \o <<95, 78, 97, 109, 101>>

\* literal runs of literal-only chunks
LitCases == {Attribut, HelloLits, AttrName}

\* chunks made of a literal run and one copy token; bits is the width of the
\* token's offset field at that point of the chunk
BackRefCases ==
  {[lits |-> <<97>>, bits |-> 4, length |-> 10, offset |-> 1],
   [lits |-> <<97, 98, 99>>, bits |-> 4, length |-> 5, offset |-> 2],
   [lits |-> AttrVB, bits |-> 4, length |-> 4, offset |-> 12],
   [lits |-> AttrName, bits |-> 5, length |-> 3, offset |-> 17]}

LitChunk(lits) == Chunk(LitRun(lits))
BackRefChunk(c) == Chunk(LitsToken(c.lits, c.bits, c.length, c.offset))

HelloChunk == LitChunk(HelloLits)
RepeatChunk == BackRefChunk([lits |-> <<97>>, bits |-> 4, length |-> 10, offset |-> 1])

\* the container start is the sentinel 0x01; the first chunk must begin
\* with a header, the flag byte 0x00 and the literals "Attribut"
FirstChunks ==
  {LitChunk(l) : l \in {Attribut, AttrName}}
    \cup {BackRefChunk(c) : c \in {d \in BackRefCases : Len(d.lits) >= 8}}
TailChunks ==
  {BackRefChunk(c) : c \in {d \in BackRefCases : Len(d.lits) < 8}}
    \cup {<<>>, HelloChunk, HelloChunk \o RepeatChunk}

Container == <<1>> \o LitChunk(Attribut)

\* raw chunks (flag 0, size 4098): header and 4096 stored bytes
RawFirst == Hdr(0, 4098) \o <<0>> \o Attribut \o [i \in 1..(4096 - 9) |-> (7 * i) % 251]
RawChunk == Hdr(0, 4098) \o [i \in 1..4096 |-> (13 * i + 5) % 256]

\* malformed chunks: signature bits 0b111; raw chunk of declared size 5;
\* a copy token cut by the declared chunk end; a copy token as first item;
\* a copy token of length 4098 after one literal
BadSigChunk == <<5, 112, 0, 65, 66>>
RawSizeChunk == Hdr(0, 5) \o <<1, 2, 3>>
CutTokenChunk == Hdr(1, 5) \o <<2, 97, 7>>
TokenFirstChunk == Chunk(<<1, 0, 0>>)
LongCopyChunk == Chunk(<<2, 97>> \o Tok(4, 4098, 1))

\* bytes of a slice that follow a raw chunk's last 12 bytes: a caller that
\* goes on after an error of Write never passes them again
Dropped == [i \in 1..(CoarseGrain - 12) |-> 0]

\* marker followed by well-formed chunks
ValidStreams ==
  {<<1>> \o f \o t : f \in FirstChunks, t \in TailChunks}
    \cup {<<1>> \o RawFirst \o RepeatChunk, Container \o RawChunk \o HelloChunk}

InvalidStreams ==
  {Container \o c \o t :
     c \in {BadSigChunk, RawSizeChunk, CutTokenChunk, TokenFirstChunk},
     t \in {<<>>, HelloChunk}}
    \cup {Container \o LongCopyChunk,
          <<1, 8, 160, 0>> \o Attribut \o HelloChunk,
          Container \o HelloChunk \o BadSigChunk \o RepeatChunk,
          Container \o Container,
          Container \o RawChunk \o Dropped \o HelloChunk}

\* bytes in front of the container start
Prefixes ==
  {<<103, 103>>, <<1>>, <<1, 103, 103>>, <<103, 1, 46, 46, 0, 65, 116, 103>>}

PrefixedStreams ==
  {p \o Container \o t : p \in Prefixes, t \in {HelloChunk, RepeatChunk}}

\* streams without any complete marker
NoMarkerStreams ==
  {<<103, 1, 2, 3, 0>> \o SubSeq(Attribut, 1, 7) \o <<103, 0, 0, 176>>}

Streams == ValidStreams \cup InvalidStreams \cup PrefixedStreams \cup NoMarkerStreams

----------------------------------------------------------------------------
(* state *)

VARIABLES
  compressedBuffer, uncompressedBuffer, cSize, uSize, marker,  \* VBAWriter
  sink,       \* bytes the downstream writer has taken
  input, pos, \* the stream the caller feeds and the number of bytes fed
  ret,        \* what the last Write call returned, for a slice of ret.len bytes
  calls,      \* uncompressChunk and wr.Write calls made by the last Write
  base, flushLog,  \* history: compressed bytes shifted out; base at each flush
  faults,     \* downstream faults so far
  bytewise,   \* history: every Write so far was passed a single byte
  copyTokens, \* history: the copy tokens read by the last Write
  stored,     \* history: end of the last Write's stores of input bytes
  difference, copyToken,  \* arguments of a call of copyTokenHelp on its own
  split,      \* and the split of copyToken it leads to
  pc,         \* where a Write call run loop by loop stands: "idle" between calls
  offset, total,  \* Write's offset into b and uncompress's total in such a call
  steps,      \* history: loop iterations made so far by that call
  entry       \* history: cSize and the last error when that call began, and
              \* its measure when it reached the loop of Write

vars == <<compressedBuffer, uncompressedBuffer, cSize, uSize, marker, sink,
          input, pos, ret, calls, base, flushLog, faults, bytewise,
          copyTokens, stored, difference, copyToken, split,
          pc, offset, total, steps, entry>>

\* the writer, its sink and its history as one record
Vba ==
  [cb |-> compressedBuffer, ub |-> uncompressedBuffer,
   cSize |-> cSize, uSize |-> uSize, cur |-> marker.cur, found |-> marker.found,
   sink |-> sink, decodes |-> calls.decodes, writes |-> calls.writes,
   base |-> base, flushLog |-> flushLog, tokens |-> copyTokens,
   stored |-> stored]

\* no call of copyTokenHelp on its own has been made
NoSplit == <<>>

NoFault == [at |-> 0, kind |-> "ok"]
SinkFaults == [at : 1..2, kind : {"short", "error"}]

Init ==
  /\ compressedBuffer = NewWriter.cb
  /\ uncompressedBuffer = NewWriter.ub
  /\ cSize = 0
  /\ uSize = 0
  /\ marker = [cur |-> 0, found |-> FALSE]
  /\ sink = <<>>
  /\ input \in Streams
  /\ pos = 0
  /\ ret = [n |-> 0, err |-> Nil, len |-> 0]
  /\ calls = [decodes |-> 0, writes |-> 0]
  /\ base = 0
  /\ flushLog = <<>>
  /\ faults = 0
  /\ bytewise = TRUE
  /\ copyTokens = <<>>
  /\ stored = 0
  /\ difference = 0
  /\ copyToken = 0
  /\ split = NoSplit
  /\ pc = "idle"
  /\ offset = 0
  /\ total = 0
  /\ steps = 0
  /\ entry = [cSize |-> 0, err |-> Nil, rank |-> 0]

\* the caller passes the next n bytes of the stream to Write
Apply(n, env) ==
  \E r \in {Write(Vba, SubSeq(input, pos + 1, pos + n), env)} :
     /\ (env.at > 0 => r.vba.writes >= env.at)
     /\ compressedBuffer' = r.vba.cb
     /\ uncompressedBuffer' = r.vba.ub
     /\ cSize' = r.vba.cSize
     /\ uSize' = r.vba.uSize
     /\ marker' = [cur |-> r.vba.cur, found |-> r.vba.found]
     /\ sink' = r.vba.sink
     /\ pos' = pos + n
     /\ ret' = [n |-> r.n, err |-> r.err, len |-> n]
     /\ calls' = [decodes |-> r.vba.decodes, writes |-> r.vba.writes]
     /\ base' = r.vba.base
     /\ flushLog' = r.vba.flushLog
     /\ faults' = IF env.at > 0 THEN faults + 1 ELSE faults
     /\ bytewise' = (bytewise /\ n = 1)
     /\ copyTokens' = r.vba.tokens
     /\ stored' = r.vba.stored
     /\ UNCHANGED <<input, difference, copyToken, split, pc, offset, total,
                    steps, entry>>

Grain == IF Len(input) > LongInput THEN CoarseGrain ELSE 1

\* slice lengths the caller may pass next: some grains, or all that is left
WriteSizes == {k * Grain : k \in 1..MaxWrite} \cup {Len(input) - pos}

\* Write with a sink that takes every block
WriteCall ==
  /\ ret.err # Panic
  /\ \E n \in WriteSizes : n >= 1 /\ pos + n <= Len(input) /\ Apply(n, NoFault)

\* Write during which one downstream write is short or fails
WriteSinkFault ==
  /\ ret.err # Panic
  /\ faults < MaxFaults
  /\ \E n \in WriteSizes, f \in SinkFaults :
       n >= 1 /\ pos + n <= Len(input) /\ Apply(n, f)

Next == WriteCall \/ WriteSinkFault

Spec == Init /\ [][Next]_vars

----------------------------------------------------------------------------
(* copyTokenHelp on its own: the split of a copy token for a given number  *)
(* of bytes produced so far in the chunk                                   *)

\* differences 1..MaxDifference are tried (a chunk produces up to 4096 bytes)
MaxDifference == 4096

\* copy tokens tried: all bits clear, all set, and mixed patterns
TokenCases == {0, 1, 4095, 4096, 23130, 32768, 42435, 65535}

\* lines 243-249 of uncompressChunk for one copy token
splitOf(h, token) ==
  [help |-> h, length |-> tokenLength(token, h), offset |-> tokenOffset(token, h)]

HelpInit ==
  /\ compressedBuffer = NewWriter.cb
  /\ uncompressedBuffer = NewWriter.ub
  /\ cSize = 0
  /\ uSize = 0
  /\ marker = [cur |-> 0, found |-> FALSE]
  /\ sink = <<>>
  /\ input = <<>>
  /\ pos = 0
  /\ ret = [n |-> 0, err |-> Nil, len |-> 0]
  /\ calls = [decodes |-> 0, writes |-> 0]
  /\ base = 0
  /\ flushLog = <<>>
  /\ faults = 0
  /\ bytewise = TRUE
  /\ copyTokens = <<>>
  /\ stored = 0
  /\ difference \in 1..MaxDifference
  /\ copyToken \in TokenCases
  /\ split = NoSplit
  /\ pc = "idle"
  /\ offset = 0
  /\ total = 0
  /\ steps = 0
  /\ entry = [cSize |-> 0, err |-> Nil, rank |-> 0]

\* copyTokenHelp(uint(vba.uSize), uint(decompressedChunkStart)) with
\* decompressedChunkStart = 0, and the token's length and offset
HelpCall ==
  /\ split = NoSplit
  /\ split' = splitOf(copyTokenHelp(difference, 0), copyToken)
  /\ UNCHANGED <<compressedBuffer, uncompressedBuffer, cSize, uSize, marker,
                 sink, input, pos, ret, calls, base, flushLog, faults,
                 bytewise, copyTokens, stored, difference, copyToken,
                 pc, offset, total, steps, entry>>

HelpNext == HelpCall

HelpSpec == HelpInit /\ [][HelpNext]_vars

----------------------------------------------------------------------------
(* Write run loop by loop: one step per iteration of the loop of Write and *)
(* per iteration of the loop of uncompress                                 *)

\* the writer's fields and history take the values of the record v
Install(v) ==
  /\ compressedBuffer' = v.cb
  /\ uncompressedBuffer' = v.ub
  /\ cSize' = v.cSize
  /\ uSize' = v.uSize
  /\ marker' = [cur |-> v.cur, found |-> v.found]
  /\ sink' = v.sink
  /\ base' = v.base
  /\ flushLog' = v.flushLog
  /\ copyTokens' = v.tokens
  /\ stored' = v.stored

\* A measure of the work a call in progress has left: every byte of b not
\* yet copied counts twice and every buffered byte once, so that copying a
\* byte into the buffer lowers it as well as shifting bytes out; the last
\* term orders the two loops when an iteration neither copies nor shifts.
RankOf(at, len, off, fill) ==
  3 * (2 * (len - off) + fill)
    + (IF at = "chunk" THEN 1 ELSE IF fill = VBABuffSize THEN 2 ELSE 0)

Rank == RankOf(pc, ret.len, offset, cSize)

\* the slice b of the call in progress
CallSlice == SubSeq(input, pos + 1, pos + ret.len)

\* Write returns (n, err): the caller has passed ret.len more bytes
Return(n, err) ==
  /\ ret' = [n |-> n, err |-> err, len |-> ret.len]
  /\ pos' = pos + ret.len
  /\ pc' = "idle"
  /\ offset' = 0
  /\ total' = 0

\* Write is called with the next n bytes: lines 117-125, up to the loop
StepEnter(n, c) ==
  /\ Install(c.vba)
  /\ entry' = [cSize |-> cSize, err |-> ret.err,
               rank |-> RankOf("write", n, c.offset, c.vba.cSize)]
  /\ steps' = 0
  /\ bytewise' = (bytewise /\ n = 1)
  /\ IF carveOnly(marker.found, c.hasVBA)
     THEN /\ ret' = [n |-> n, err |-> Nil, len |-> n]
          /\ pos' = pos + n
          /\ UNCHANGED <<pc, offset, total>>
     ELSE /\ ret' = [n |-> 0, err |-> Nil, len |-> n]
          /\ pc' = "write"
          /\ offset' = c.offset
          /\ UNCHANGED <<pos, total>>
  /\ UNCHANGED <<input, calls, faults, difference, copyToken, split>>

StepCall ==
  /\ pc = "idle"
  /\ ret.err # Panic
  /\ \E n \in WriteSizes :
       /\ n >= 1 /\ pos + n <= Len(input)
       /\ \E c \in {IF ~marker.found
                     THEN carvVBA([Vba EXCEPT !.tokens = <<>>, !.stored = 0],
                                  SubSeq(input, pos + 1, pos + n))
                     ELSE [vba |-> [Vba EXCEPT !.tokens = <<>>, !.stored = 0],
                           offset |-> 0, hasVBA |-> FALSE]} :
            StepEnter(n, c)

\* one test of the loop of Write and, when it holds, the copy into the
\* buffer (lines 129-138); else return len(b), nil (line 148)
StepWrite ==
  /\ pc = "write"
  /\ IF ~(ret.len - offset > 0)
     THEN /\ Return(ret.len, Nil)
          /\ UNCHANGED <<compressedBuffer, uncompressedBuffer, cSize, uSize,
                         marker, sink, base, flushLog, copyTokens, stored>>
     ELSE /\ Install(appendInput(Vba, CallSlice, offset,
                                 takeOf(VBABuffSize - cSize, ret.len - offset)))
          /\ offset' = offset + takeOf(VBABuffSize - cSize, ret.len - offset)
          /\ total' = 0
          /\ pc' = "chunk"
          /\ UNCHANGED <<pos, ret>>
  /\ steps' = steps + 1
  /\ UNCHANGED <<input, calls, faults, bytewise, difference, copyToken, split,
                 entry>>

\* the outcome s of one iteration of the loop of uncompress: the next
\* iteration, Write's return of the error (line 141), or back to the loop
\* of Write
StepAfter(s) ==
  /\ Install(s.vba)
  /\ IF s.again
     THEN total' = s.n /\ UNCHANGED <<pc, offset, pos, ret>>
     ELSE IF s.err # Nil
     THEN Return(errorCount(0, s.n), s.err)
     ELSE pc' = "write" /\ total' = 0 /\ UNCHANGED <<offset, pos, ret>>
  /\ steps' = steps + 1
  /\ UNCHANGED <<input, calls, bytewise, difference, copyToken, split, entry>>

\* one test of the loop of uncompress and, when it holds, one iteration
\* with a sink that takes the block
StepChunk ==
  /\ pc = "chunk"
  /\ IF ~(cSize > 0)
     THEN /\ pc' = "write"
          /\ total' = 0
          /\ steps' = steps + 1
          /\ UNCHANGED <<compressedBuffer, uncompressedBuffer, cSize, uSize,
                         marker, sink, base, flushLog, copyTokens, stored,
                         input, calls, bytewise, difference, copyToken, split,
                         entry, offset, pos, ret>>
     ELSE \E s \in {chunkIter(Vba, total, NoFault)} : StepAfter(s)
  /\ UNCHANGED faults

\* one iteration of the loop of uncompress whose downstream write is short
\* or fails
StepChunkFault ==
  /\ pc = "chunk"
  /\ cSize > 0
  /\ faults < MaxFaults
  /\ \E kind \in {"short", "error"} :
       \E s \in {chunkIter(Vba, total, [at |-> 1, kind |-> kind])} :
          /\ Len(s.vba.flushLog) > Len(flushLog)
          /\ StepAfter(s)
  /\ faults' = faults + 1

\* a step of the call in progress
StepRun == StepWrite \/ StepChunk \/ StepChunkFault

StepNext == StepCall \/ StepRun

StepSpec == Init /\ [][StepNext]_vars

----------------------------------------------------------------------------
(* properties *)

\* the run has fed the whole stream
Fed == pos = Len(input)

\* the sink after a single Write of the whole of s to a new writer
WholeSink(s) == Write(NewWriter, s, NoFault).vba.sink

\* C1: partial-write tolerance.  Once a valid stream (marker followed by
\* well-formed chunks) has been fed completely to a reliable sink, by any
\* split into slices, the sink holds exactly the bytes that one Write of the
\* whole stream delivers.
C1_PartialWriteTolerance ==
  (input \in ValidStreams /\ Fed /\ faults = 0) => sink = WholeSink(input)

\* a valid stream of several chunks fed one byte per Write, all delivered
C1_Witness ==
  /\ input \in ValidStreams
  /\ Fed /\ faults = 0 /\ bytewise
  /\ Len(flushLog) >= 3
  /\ sink = WholeSink(input)

\* index in s of the first occurrence of 0x01 ?? ?? 0x00 "Attribut", or 0
FirstMarkerAt(s) ==
  LET hits == {i \in 1..(Len(s) - 11) :
                 s[i] = 1 /\ s[i + 3] = 0 /\ SubSeq(s, i + 4, i + 11) = Attribut}
  IN IF hits = {} THEN 0 ELSE CHOOSE i \in hits : \A j \in hits : i <= j

\* C2 (as claimed): marker carving.  For a stream with bytes in front of the
\* first occurrence of the marker pattern, fed completely to a reliable
\* sink, the sink holds what the stream without those bytes delivers.
C2_MarkerCarving ==
  (Fed /\ faults = 0 /\ FirstMarkerAt(input) > 1)
    => sink = WholeSink(SubSeq(input, FirstMarkerAt(input), Len(input)))

\* C3 (as claimed): exactly-once, in-order flush.  The downstream writes are
\* for chunks at strictly increasing stream offsets: no chunk is written a
\* second time or out of order.
C3_ExactlyOnceInOrder ==
  \A i, j \in DOMAIN flushLog :
    i < j => flushLog[i].base < flushLog[j].base

\* C4 (as claimed): fatal errors abort the session.  After a Write that
\* returned an error, no later Write delivers a byte to the sink.
C4_FatalErrorsAbort ==
  [][(ret.err # Nil) => (sink' = sink /\ flushLog' = flushLog)]_vars

\* the buffer's front holds a 2-byte header whose bits 12-14 are not 0b011
BadFront ==
  /\ marker.found
  /\ cSize >= 2
  /\ (Uint16LE(compressedBuffer, 0) \div 4096) % 8 # 3

\* C5: invalid signature rejection.  A Write that runs the decoder on a
\* front chunk whose header bits 12-14 are not 0b011 returns the signature
\* error; no downstream write was ever made for that chunk; and from then on
\* every Write returns the signature error, writes nothing downstream and
\* leaves the bad chunk, and the bytes buffered behind it, in place.
C5_InvalidSignatureRejected ==
  /\ [](BadFront =>
          /\ (calls.decodes > 0 => ret.err = ErrSignature)
          /\ \A i \in DOMAIN flushLog : flushLog[i].base < base)
  /\ [][BadFront =>
          /\ ret'.err = ErrSignature
          /\ sink' = sink /\ flushLog' = flushLog /\ base' = base
          /\ cSize' >= cSize
          /\ Slice(compressedBuffer', 0, cSize) = Slice(compressedBuffer, 0, cSize)]_vars

\* a bad chunk behind two decoded chunks, fed one byte per Write up to the
\* end of the stream: the error was returned again and again
C5_Witness ==
  /\ BadFront /\ bytewise /\ Fed
  /\ ret.err = ErrSignature
  /\ Len(flushLog) = 2 /\ base = 28 /\ cSize > 5

\* C6 (as claimed): Write returns (len(b), nil) when no error occurs and
\* otherwise a count between 0 and len(b).
C6_WriterContract ==
  (ret.err # Panic) =>
    /\ 0 <= ret.n /\ ret.n <= ret.len
    /\ (ret.err = Nil => ret.n = ret.len)

\* the bytes the sink took at a downstream write, and whether it took all
FlushOut(f) == SubSeq(sink, f.from + 1, f.from + f.taken)
Complete(f) == f.taken = f.len

\* C7: round trip on raw chunks.  For a decoded chunk with header 0x3FFF
\* (flag 0, signature 0b011, size 4098) the block written downstream is the
\* 4096 bytes after the header, unchanged, and 4098 bytes are consumed.
C7_RawRoundTrip ==
  \A i \in DOMAIN flushLog :
    LET f == flushLog[i]
    IN (SubSeq(f.chunk, 1, 2) = <<255, 63>> /\ Complete(f)) =>
         /\ f.len = 4096
         /\ Len(f.chunk) = 4098
         /\ FlushOut(f) = SubSeq(f.chunk, 3, 4098)
         /\ base >= f.base + 4098
         /\ (i < Len(flushLog) => flushLog[i + 1].base = f.base + 4098)

\* a raw chunk behind the first chunk was written downstream, and the chunk
\* after it as well
C7_Witness ==
  /\ Len(flushLog) = 3 /\ faults = 0
  /\ flushLog[2].chunk = RawChunk
  /\ flushLog[2].base = 11 /\ flushLog[2].taken = 4096
  /\ flushLog[3].base = 11 + 4098

\* C8: back-reference correctness.  For a decoded chunk made of a literal
\* run and one copy token (length L, offset O), the block written downstream
\* is the literal run followed by L bytes, each equal to the byte O places
\* before it; offset 1 and length 10 after one byte give that byte 11 times.
C8_BackReference ==
  \A i \in DOMAIN flushLog : \A c \in BackRefCases :
    LET f == flushLog[i]
        out == FlushOut(f)
        p == Len(c.lits)
    IN (f.chunk = BackRefChunk(c) /\ Complete(f)) =>
         /\ Len(out) = p + c.length
         /\ SubSeq(out, 1, p) = c.lits
         /\ \A k \in 1..c.length : out[p + k] = out[p + k - c.offset]
         /\ (c.lits = <<97>> /\ c.length = 10 /\ c.offset = 1
               => out = [k \in 1..11 |-> 97])

\* the self-overlapping copy of offset 1 and length 10 was decoded in a
\* byte-by-byte feed
C8_Witness ==
  \E i \in DOMAIN flushLog :
    /\ flushLog[i].chunk = RepeatChunk
    /\ Complete(flushLog[i])
    /\ FlushOut(flushLog[i]) = [k \in 1..11 |-> 97]
    /\ bytewise

\* C9: token expansion.  For a decoded chunk whose token groups hold only
\* literal items, the block written downstream is the literal bytes in
\* order: no header or flag byte, one flag byte read per 8 items.
C9_LiteralExpansion ==
  \A i \in DOMAIN flushLog : \A lits \in LitCases :
    LET f == flushLog[i]
    IN (f.chunk = LitChunk(lits) /\ Complete(f)) => FlushOut(f) = lits

\* "Hello, World!" (two token groups) was decoded behind the first chunk
C9_Witness ==
  /\ Len(flushLog) >= 2
  /\ flushLog[2].chunk = HelloChunk
  /\ Complete(flushLog[2])
  /\ FlushOut(flushLog[2]) = HelloLits

\* C10: marker not found is benign.  While the marker has not been fully
\* matched, every Write returned (len(b), nil), wrote nothing downstream and
\* never ran the chunk decoder.
C10_MarkerNotFoundBenign ==
  ~marker.found =>
    /\ ret.err = Nil /\ ret.n = ret.len
    /\ sink = <<>> /\ flushLog = <<>>
    /\ calls.decodes = 0 /\ calls.writes = 0
    /\ base = 0

\* a whole stream was fed, in several calls, without the marker being found
C10_Witness ==
  /\ ~marker.found /\ Fed /\ bytewise
  /\ Len(input) > 12
  /\ ret.n = 1

\* C11 (as claimed): no complete chunk is left at the front.  After a Write
\* that returned without error with the marker found, the buffer is empty
\* or the declared size of the chunk at its front exceeds the fill level;
\* also after the Write whose slice ends on the marker's last byte.
C11_NoCompleteChunkLeft ==
  (marker.found /\ ret.err = Nil) =>
    \/ cSize = 0
    \/ chunkSize(Uint16LE(compressedBuffer, 0)) > cSize

\* C12 (as claimed): copy-token window safety.  Every copy token the decoder
\* reads resolves to an offset between 1 and the number of bytes already
\* produced in its chunk, so its source index uSize - offset is not
\* negative; also for a copy token that is the first item of a chunk.
C12_CopyWindow ==
  \A i \in DOMAIN copyTokens :
    /\ 1 <= copyTokens[i].offset
    /\ copyTokens[i].offset <= copyTokens[i].produced
    /\ copySourceOf(copyTokens[i].produced, copyTokens[i].offset) >= 0

\* C13 (as claimed): output bound per chunk.  A decoded chunk produces at
\* most 4096 bytes: uSize never exceeds 4096, no block written downstream
\* is longer, and no copy token carries the output past 4096 bytes, so no
\* store falls outside the output buffer.
C13_OutputBound ==
  /\ uSize <= 4096
  /\ \A i \in DOMAIN flushLog : flushLog[i].len <= 4096
  /\ \A i \in DOMAIN copyTokens :
       copyTokens[i].produced + copyTokens[i].length <= 4096

\* C14 (as claimed): consumed equals declared size.  Every decoded chunk is
\* reported as consuming exactly its declared size, (header & 0x0FFF) + 3,
\* and both bytes of every copy token lie before the declared chunk end,
\* also when the token's first byte is the chunk's last byte.
C14_ConsumedIsDeclared ==
  /\ \A i \in DOMAIN flushLog :
       Len(flushLog[i].chunk) = chunkSize(Uint16LE(flushLog[i].chunk, 0))
  /\ \A i \in DOMAIN copyTokens :
       copyTokens[i].at + 2 <= copyTokens[i].end

\* fewer bytes than the front chunk's declared size are buffered
ShortFront ==
  /\ marker.found
  /\ cSize > 0
  /\ chunkSize(Uint16LE(compressedBuffer, 0)) > cSize

\* C15 (as claimed): insufficient data is a non-error.  A Write whose last
\* decode attempt found fewer bytes buffered than the front chunk declares
\* (also a single header byte) returns no error and leaves no output bytes;
\* and a Write that starts and ends on the same short front chunk writes
\* nothing downstream and keeps the buffered bytes in place.
C15_InsufficientIsNoError ==
  /\ []((ShortFront /\ calls.decodes > 0) =>
          (ret.err = Nil /\ ret.n = ret.len /\ uSize = 0))
  /\ [][(ShortFront /\ ShortFront' /\ base' = base) =>
          /\ ret'.err = Nil
          /\ sink' = sink /\ flushLog' = flushLog
          /\ cSize' = cSize + ret'.len
          /\ Slice(compressedBuffer', 0, cSize) = Slice(compressedBuffer, 0, cSize)]_vars

\* C16: accumulation buffer bound.  In every state, while carving and while
\* decompressing, the fill level lies in 0..4098, no Write stored an input
\* byte at index 4098 or higher, and the carver never holds more than the
\* 11 marker bytes behind the sentinel.
C16_BufferBound ==
  /\ 0 <= cSize /\ cSize <= VBABuffSize
  /\ stored <= VBABuffSize
  /\ Len(compressedBuffer) <= VBABuffSize
  /\ (~marker.found => cSize <= mlen - 1)

\* a slice longer than the buffer was written in one call, and the buffer
\* was filled up to its last byte on the way
C16_Witness ==
  /\ ret.len > VBABuffSize
  /\ stored = VBABuffSize
  /\ ret.err = Nil /\ Fed

\* C17: copy-token bit split.  For a difference d >= 1, copyTokenHelp gives
\* the smallest bit count b >= 4 with 2^b >= d (4 up to 16, 5 for 17..32,
\* ..., 12 for 2049..4096), lengthMask = 2^(16-b) - 1 and offsetMask its
\* 16-bit complement; the length is the token's low 16-b bits plus 3 and
\* the offset its high b bits plus 1: the fields are disjoint and cover the
\* token.
C17_BitSplit ==
  split # NoSplit =>
    LET b == split.help.bitCount
        low == Pow2(16 - split.help.bitCount)
    IN /\ b >= 4 /\ b <= 16
       /\ Pow2(b) >= difference
       /\ (b > 4 => Pow2(b - 1) < difference)
       /\ (difference <= 16 => b = 4)
       /\ (difference >= 17 /\ difference <= 32 => b = 5)
       /\ (difference >= 2049 /\ difference <= 4096 => b = 12)
       /\ split.help.lengthMask = low - 1
       /\ split.help.offsetMask = 65536 - low
       /\ And16(split.help.lengthMask, split.help.offsetMask) = 0
       /\ split.help.lengthMask + split.help.offsetMask = 65535
       /\ split.length = (copyToken % low) + 3
       /\ split.offset = (copyToken \div low) + 1
       /\ copyToken = (split.offset - 1) * low + (split.length - 3)

\* the token 0xA5C3 after 17 bytes: 5 offset bits, 11 length bits
C17_Witness ==
  /\ split # NoSplit
  /\ difference = 17 /\ copyToken = 42435
  /\ split.help.bitCount = 5
  /\ split.offset = 21 /\ split.length = 1478

\* the number of bytes of its slice that the Write of this step appended to
\* the buffer: the growth of the compressed stream, shifted-out bytes included
Appended == (base' + cSize') - (base + cSize)

\* C18: signature-found is permanent.  Once the marker is matched,
\* marker.found stays true and the match cursor is never touched again;
\* every later Write appends the bytes of its slice, whatever they are, to
\* the buffered compressed data (all of them when it returns no error).  In
\* the Write that completes the marker, the compressed data are the 11
\* marker bytes behind the sentinel and then the input bytes that follow
\* the marker's last byte.
C18_FoundIsPermanent ==
  /\ [][marker.found =>
          /\ marker'.found /\ marker'.cur = mlen /\ marker.cur = mlen
          /\ 0 <= Appended /\ Appended <= ret'.len
          /\ (ret'.err = Nil => Appended = ret'.len)
          /\ Slice(compressedBuffer', 0, cSize')
               = SubSeq(Slice(compressedBuffer, 0, cSize)
                          \o SubSeq(input, pos + 1, pos + Appended),
                        base' - base + 1, cSize + Appended)]_vars
  /\ [][(~marker.found /\ marker'.found) =>
          /\ marker'.cur = mlen
          /\ base' + cSize' >= mlen - 1
          /\ \E e \in (pos + 1)..pos' :
               /\ e >= mlen
               /\ input[e - 11] = 1 /\ input[e - 8] = 0
               /\ SubSeq(input, e - 7, e) = Attribut
               /\ e + (base' + cSize' - 11) <= pos'
               /\ (ret'.err = Nil => e + (base' + cSize' - 11) = pos')
               /\ Slice(compressedBuffer', 0, cSize')
                    = SubSeq(input, e - 10 + base', e + (base' + cSize' - 11))]_vars

\* a second marker pattern arrived after the first, byte by byte: it sits
\* in the buffer as compressed data (and fails the signature check)
C18_Witness ==
  /\ marker.found /\ Fed /\ bytewise
  /\ base = 11
  /\ Slice(compressedBuffer, 0, cSize) = Container
  /\ ret.err = ErrSignature

\* the next input byte does not continue the match at the current cursor
Mismatch ==
  /\ marker.cur # 1 /\ marker.cur # 2
  /\ input[pos + 1] # MarkerBytes[marker.cur + 1]

\* C19: carver invariant.  While the marker is not found, the cursor is in
\* 0..11, cSize = max(cur - 1, 0), the cur bytes fed last begin with a 0x01
\* sentinel and the cSize bytes behind it are the buffer's content; a byte
\* that does not match resets cursor and cSize to 0, a byte that matches
\* advances the cursor by one; and when the marker is found on the last
\* byte of a slice, cSize = 11 and the buffer holds the two wildcard bytes,
\* 0x00 and "Attribut".
C19_CarverInvariant ==
  /\ [](~marker.found =>
          /\ 0 <= marker.cur /\ marker.cur <= mlen - 1
          /\ cSize = (IF marker.cur - 1 > 0 THEN marker.cur - 1 ELSE 0)
          /\ (marker.cur >= 1 => input[pos - marker.cur + 1] = 1)
          /\ Slice(compressedBuffer, 0, cSize) = SubSeq(input, pos - cSize + 1, pos))
  /\ [][(~marker.found /\ pos' = pos + 1) =>
          IF Mismatch
          THEN marker'.cur = 0 /\ cSize' = 0 /\ ~marker'.found
          ELSE marker'.cur = marker.cur + 1
                 /\ (marker'.found <=> marker.cur = mlen - 1)]_vars
  /\ [][(~marker.found /\ marker'.found /\ calls'.decodes = 0) =>
          /\ marker'.cur = mlen
          /\ cSize' = mlen - 1
          /\ Slice(compressedBuffer', 0, cSize')
               = <<input[pos' - 10], input[pos' - 9], 0>> \o Attribut
          /\ input[pos' - 11] = 1]_vars

\* the marker was found, on the last byte of a one-byte slice, after a
\* partial match in front of it had been reset
C19_Witness ==
  /\ marker.found /\ bytewise
  /\ calls.decodes = 0
  /\ pos = 20 /\ cSize = 11
  /\ SubSeq(input, 1, 8) = <<103, 1, 46, 46, 0, 65, 116, 103>>

\* C20: every Write call terminates.  In a Write call run loop by loop, in
\* any reachable writer state (after an earlier error, with a full buffer)
\* and for any slice, every iteration of the loop of Write and of the loop
\* of uncompress returns or lowers the measure Rank, which is never
\* negative: the call makes at most entry.rank iterations.
C20_WriteTerminates ==
  /\ [](/\ steps <= entry.rank
        /\ (pc # "idle" => (Rank >= 0 /\ steps + Rank <= entry.rank)))
  /\ [][(pc # "idle") => (pc' = "idle" \/ Rank' < Rank)]_vars

\* a Write that began with a full buffer, left by a Write that returned an
\* error, has returned
C20_Witness ==
  /\ pc = "idle"
  /\ entry.cSize = VBABuffSize
  /\ entry.err # Nil
  /\ ret.len > 0 /\ ret.err = Nil
  /\ steps >= 3

====
